---- MODULE Spec2Model ----
(***************************************************************************)
(* State-machine model of the flu SVD pipeline:                            *)
(*   analysis_data/format_flu_data.py   (formatter: calendar + population) *)
(*   exploratory_analysis/svd_flu_data.py (matrix builder, decomposer,     *)
(*                                          run_one / main)                *)
(* Strings whose characters the code inspects (location codes, season      *)
(* labels, column keys) are sequences of one-character strings.            *)
(***************************************************************************)
EXTENDS Integers, Sequences, FiniteSets, TLC

VARIABLES
    fpc,        \* formatter: position in format_flu_data.main
    admFile,    \* formatter: the admissions input file (NoFile or a table)
    locFile,    \* formatter: the locations file found by _pick_locations_file
    adm,        \* formatter: the working table `adm` / `out`
    outFile,    \* formatter: analysis_data/formatted_flu.csv
    pc,         \* svd script: position in run_one / build re-run / pca
    run,        \* svd script: index of the run_one call in main (1 or 2)
    inFiles,    \* svd script: the two input files, by run index
    written,    \* svd script: output files written so far (path -> content)
    df,         \* the table given to build_matrix
    value_col,  \* the value column picked by pick_value_column
    X,          \* the matrix returned by build_matrix
    colmap,     \* the ColumnMap returned by build_matrix
    n_components, \* the cap given to pca_svd_to_long (None or an integer)
    svd_long,   \* the factor table returned by pca_svd_to_long
    first,      \* result of build_matrix on the table before it was shuffled
    shuffles    \* number of row shuffles applied to df

fvars == <<fpc, admFile, locFile, adm, outFile>>
svars == <<pc, run, inFiles, written, df, value_col, X, colmap, n_components,
           svd_long, first, shuffles>>
vars == <<fpc, admFile, locFile, adm, outFile, pc, run, inFiles, written, df,
          value_col, X, colmap, n_components, svd_long, first, shuffles>>

\* ------------------------------------------------------------------ values

\* a file: os.path.exists, and the table pd.read_csv gives
NoFile == [exists |-> FALSE, columns |-> {}, rows |-> <<>>]

File(columns, rows) == [exists |-> TRUE, columns |-> columns, rows |-> rows]

NaN == <<>>             \* a missing cell (pandas NaN / NaT; an empty CSV field)
None == <<>>            \* Python None (an optional integer n is <<n>>)

\* model bounds
MinYear == 2019
MaxYear == 2025
MaxShuffles == 1
MaxExtraCols == 1

\* ----------------------------------------------------------- text helpers

Digits == <<"0", "1", "2", "3", "4", "5", "6", "7", "8", "9">>

IsDigit(c) == \E i \in 1..10 : Digits[i] = c

\* code points of the characters the model's strings use
CharCode(c) ==
    CASE c = " " -> 32
      [] c = "." -> 46
      [] c = "/" -> 47
      [] IsDigit(c) -> 47 + (CHOOSE i \in 1..10 : Digits[i] = c)
      [] c = "P" -> 80
      [] c = "R" -> 82
      [] c = "S" -> 83
      [] c = "U" -> 85
      [] c = "_" -> 95
      [] c = "s" -> 115
      [] c = "u" -> 117

\* str.upper on one character
UpperChar(c) ==
    CASE c = "u" -> "U"
      [] c = "s" -> "S"
      [] OTHER -> c

RECURSIVE StripLeft(_)
StripLeft(s) == IF s # <<>> /\ Head(s) = " " THEN StripLeft(Tail(s)) ELSE s

RECURSIVE StripRight(_)
StripRight(s) ==
    IF s # <<>> /\ s[Len(s)] = " " THEN StripRight(SubSeq(s, 1, Len(s) - 1)) ELSE s

\* str.strip()
Strip(s) == StripRight(StripLeft(s))

\* str.isdigit(): non-empty and all digits
IsDigitStr(s) == s # <<>> /\ \A i \in 1..Len(s) : IsDigit(s[i])

\* str.zfill(w)
RECURSIVE ZFill(_, _)
ZFill(s, w) == IF Len(s) >= w THEN s ELSE ZFill(<<"0">> \o s, w)

\* str(n) for n >= 0
RECURSIVE IntStr(_)
IntStr(n) == IF n < 10 THEN <<Digits[n + 1]>> ELSE IntStr(n \div 10) \o <<Digits[(n % 10) + 1]>>

\* Python's string order: lexicographic by code point
RECURSIVE StrLess(_, _)
StrLess(a, b) ==
    IF b = <<>> THEN FALSE
    ELSE IF a = <<>> THEN TRUE
    ELSE IF CharCode(Head(a)) # CharCode(Head(b)) THEN CharCode(Head(a)) < CharCode(Head(b))
    ELSE StrLess(Tail(a), Tail(b))

Range(s) == {s[i] : i \in 1..Len(s)}

\* ---------------------------------------------------------------- calendar

IsLeap(y) == (y % 4 = 0) /\ ((y % 100 # 0) \/ (y % 400 = 0))

DaysInMonth(y, m) ==
    IF m = 2 THEN (IF IsLeap(y) THEN 29 ELSE 28)
    ELSE IF m \in {4, 6, 9, 11} THEN 30 ELSE 31

RECURSIVE DaysBeforeMonth(_, _)
DaysBeforeMonth(y, m) == IF m = 1 THEN 0 ELSE DaysBeforeMonth(y, m - 1) + DaysInMonth(y, m - 1)

\* date.toordinal(): proleptic Gregorian ordinal, 0001-01-01 is day 1
\* (a date is <<year, month, day>>)
ToOrdinal(d) ==
    LET y1 == d[1] - 1
    IN  y1 * 365 + (y1 \div 4) - (y1 \div 100) + (y1 \div 400)
        + DaysBeforeMonth(d[1], d[2]) + d[3]

\* date.weekday(): Monday is 0, Sunday is 6
Weekday(ord) == (ord + 6) % 7

\* weeks counted from Monday, the ISO rule, in place of the CDC rule
YearStartMonday(y) ==
    LET jan1 == ToOrdinal(<<y, 1, 1>>)
        monday == jan1 - Weekday(jan1)
    IN  IF Weekday(jan1) > 3 THEN monday + 7 ELSE monday

\* epiweeks: ordinal of the first day (a Sunday) of MMWR week 1 of year y:
\* the week holding January 1 when that week has at least 4 days in y
\* (January 1 falls on Sunday..Wednesday), the following week otherwise
YearStart(y) ==
    LET jan1 == ToOrdinal(<<y, 1, 1>>)
        wd == (Weekday(jan1) + 1) % 7      \* Sunday is 0
        sunday == jan1 - wd
    IN  IF wd > 3 THEN sunday + 7 ELSE sunday

\* epiweeks Week.fromdate(date) under the CDC system: <<year, week>>
WeekFromDate(d) ==
    LET o == ToOrdinal(d)
        w == (o - YearStart(d[1])) \div 7
    IN  IF w < 0 THEN <<d[1] - 1, ((o - YearStart(d[1] - 1)) \div 7) + 1>>
        ELSE IF w >= 52 /\ o >= YearStart(d[1] + 1) THEN <<d[1] + 1, 1>>
        ELSE <<d[1], w + 1>>

\* epiweeks Week(y, w).startdate(), as an ordinal
WeekStartDate(y, w) == YearStart(y) + (w - 1) * 7

_mmwr_info(dt) == WeekFromDate(dt)

\* variant: the season boundary one epi-week early
SeasonOffByOne(epiyear, epiweek) == IF epiweek >= 39 THEN epiyear ELSE epiyear - 1

_season_start_year(epiyear, epiweek) == IF epiweek >= 40 THEN epiyear ELSE epiyear - 1

\* f"{y}/{y+1}"
SeasonLabel(y) == IntStr(y) \o <<"/">> \o IntStr(y + 1)

\* ------------------------------------------------- format_flu_data.py

NumWeeks == 33          \* season_week 0..32
FirstSeasonEpiweek == 40

normalize_location(x) ==
    LET s0 == Strip(x)
        n == Len(s0)
        s == IF n >= 2 /\ s0[n - 1] = "." /\ s0[n] = "0" THEN SubSeq(s0, 1, n - 2) ELSE s0
    IN  IF [i \in 1..Len(s) |-> UpperChar(s[i])] = <<"U", "S">> THEN <<"U", "S">>
        ELSE IF IsDigitStr(s) THEN ZFill(s, 2)
        ELSE s

RequiredAdmCols == {"date", "location", "location_name", "value"}

\* adm[adm["location"].notna()], then adm[adm["value"].notna()]
DropMissing(rows) ==
    SelectSeq(SelectSeq(rows, LAMBDA r : r.location # NaN), LAMBDA r : r.value # NaN)

\* pd.to_datetime(..., errors="coerce"): a calendar date, or NaT
ParseDate(x) ==
    IF Len(x) = 3 /\ x[2] \in 1..12 /\ x[3] \in 1..DaysInMonth(x[1], x[2]) THEN x ELSE NaN

\* the epiyear, epiweek, season_start_year, season and season_week columns
AttachCalendar(r) ==
    LET epi == _mmwr_info(r.date)
        ssy == _season_start_year(epi[1], epi[2])
        start == WeekStartDate(ssy, FirstSeasonEpiweek)
    IN  [date |-> r.date, location |-> r.location, location_name |-> r.location_name,
         value |-> r.value, epiyear |-> epi[1], epiweek |-> epi[2],
         season_start_year |-> ssy, season |-> SeasonLabel(ssy),
         season_week |-> (ToOrdinal(r.date) - start) \div 7]

\* adm[(adm["season_week"] >= 0) & (adm["season_week"] <= 32)]
SeasonWindow(rows) ==
    SelectSeq(rows, LAMBDA r : r.season_week >= 0 /\ r.season_week <= NumWeeks - 1)

WithPopulation(r, p) ==
    [date |-> r.date, location |-> r.location, location_name |-> r.location_name,
     value |-> r.value, epiyear |-> r.epiyear, epiweek |-> r.epiweek,
     season_start_year |-> r.season_start_year, season |-> r.season,
     season_week |-> r.season_week, population |-> p]

\* variant: how="inner", rows without a match are dropped
RECURSIVE MergeInner(_, _)
MergeInner(rows, loc) ==
    IF rows = <<>> THEN <<>>
    ELSE LET r == Head(rows)
             hits == SelectSeq(loc, LAMBDA l : l.location = r.location)
         IN  [i \in 1..Len(hits) |-> WithPopulation(r, hits[i].population)]
             \o MergeInner(Tail(rows), loc)

\* adm.merge(loc_small, on="location", how="left")
RECURSIVE MergeLeft(_, _)
MergeLeft(rows, loc) ==
    IF rows = <<>> THEN <<>>
    ELSE LET r == Head(rows)
             hits == SelectSeq(loc, LAMBDA l : l.location = r.location)
         IN  (IF hits = <<>> THEN <<WithPopulation(r, NaN)>>
              ELSE [i \in 1..Len(hits) |-> WithPopulation(r, hits[i].population)])
             \o MergeLeft(Tail(rows), loc)

\* the order of sort_values(["season", "location", "season_week", "date"])
OutLess(a, b) ==
    IF a.season # b.season THEN StrLess(a.season, b.season)
    ELSE IF a.location # b.location THEN StrLess(a.location, b.location)
    ELSE IF a.season_week # b.season_week THEN a.season_week < b.season_week
    ELSE ToOrdinal(a.date) < ToOrdinal(b.date)

OutCols == {"date", "location", "location_name", "population", "value", "season",
            "season_week", "epiyear", "epiweek"}

\* out[cols].sort_values(...): season_start_year is not an output column
SortOut(rows) ==
    LET n == Len(rows)
        rank(i) == 1 + Cardinality({j \in 1..n :
                        OutLess(rows[j], rows[i])
                        \/ (~OutLess(rows[i], rows[j]) /\ j < i)})
        at(k) == rows[CHOOSE i \in 1..n : rank(i) = k]
    IN  [k \in 1..n |->
            [date |-> at(k).date, location |-> at(k).location,
             location_name |-> at(k).location_name, population |-> at(k).population,
             value |-> at(k).value, season |-> at(k).season,
             season_week |-> at(k).season_week, epiyear |-> at(k).epiyear,
             epiweek |-> at(k).epiweek]]

\* lines 77-86: the admissions file exists and has the required columns
FmtLoad ==
    /\ fpc = "start"
    /\ IF admFile = NoFile THEN fpc' = "MissingInput" /\ adm' = adm
       ELSE IF ~(RequiredAdmCols \subseteq admFile.columns)
            THEN fpc' = "SchemaError" /\ adm' = adm
       ELSE fpc' = "loaded" /\ adm' = admFile.rows
    /\ UNCHANGED <<admFile, locFile, outFile>>
    /\ UNCHANGED svars

\* lines 88-102: drop missing, normalize locations, parse dates
FmtClean ==
    /\ fpc = "loaded"
    /\ LET kept == DropMissing(adm)
           parsed == [i \in 1..Len(kept) |->
                        [kept[i] EXCEPT !.location = normalize_location(@),
                                        !.date = ParseDate(@)]]
       IN  /\ adm' = parsed
           /\ fpc' = IF \E i \in 1..Len(parsed) : parsed[i].date = NaN
                     THEN "ParseError" ELSE "cleaned"
    /\ UNCHANGED <<admFile, locFile, outFile>>
    /\ UNCHANGED svars

\* lines 104-129: epiweek, season and season_week of every row
FmtCalendar ==
    /\ fpc = "cleaned"
    /\ adm' = [i \in 1..Len(adm) |-> AttachCalendar(adm[i])]
    /\ fpc' = "dated"
    /\ UNCHANGED <<admFile, locFile, outFile>>
    /\ UNCHANGED svars

\* lines 131-132
FmtWindow ==
    /\ fpc = "dated"
    /\ adm' = SeasonWindow(adm)
    /\ fpc' = "windowed"
    /\ UNCHANGED <<admFile, locFile, outFile>>
    /\ UNCHANGED svars

\* lines 134-155: locations file, merge, population check
FmtMerge ==
    /\ fpc = "windowed"
    /\ IF locFile = NoFile THEN fpc' = "MissingInput" /\ adm' = adm
       ELSE IF ~({"location", "population"} \subseteq locFile.columns)
            THEN fpc' = "SchemaError" /\ adm' = adm
       ELSE LET loc_small == [i \in 1..Len(locFile.rows) |->
                                [location |-> normalize_location(locFile.rows[i].location),
                                 population |-> locFile.rows[i].population]]
                out == MergeLeft(adm, loc_small)
            IN  /\ adm' = out
                /\ fpc' = IF \E i \in 1..Len(out) : out[i].population = NaN
                          THEN "JoinMismatch" ELSE "merged"
    /\ UNCHANGED <<admFile, locFile, outFile>>
    /\ UNCHANGED svars

\* lines 157-176: column order, sort, to_csv
FmtWrite ==
    /\ fpc = "merged"
    /\ outFile' = File(OutCols, SortOut(adm))
    /\ fpc' = "done"
    /\ UNCHANGED <<admFile, locFile, adm>>
    /\ UNCHANGED svars

FmtFailed == fpc \in {"MissingInput", "SchemaError", "ParseError", "JoinMismatch"}

\* ---- formatter inputs

Dates == {<<y, m, d>> : y \in MinYear..MaxYear, m \in 1..12, d \in 1..31} 

ValidDates == {x \in Dates : ParseDate(x) # NaN}

Date20231008 == <<2023, 10, 8>>

AdmRow(date, location, value) ==
    [date |-> date, location |-> location, location_name |-> "name", value |-> value]

LocTokens == {<<"6">>, <<" ", "6", ".", "0">>, <<"u", "s">>, <<"7", "2">>, <<"P", "R">>}

\* rows that may follow the first row of the admissions table
AdmTails ==
    { <<>>,
      <<AdmRow(<<2023, 10, 7>>, <<"U", "S">>, <<5>>), AdmRow(<<2023, 10, 7>>, NaN, <<1>>),
        AdmRow(<<2024, 1, 6>>, <<"6">>, NaN)>>,
      <<AdmRow(<<2023, 2, 30>>, <<"6">>, <<2>>)>> }

AdmFiles ==
    {NoFile}
    \cup {File({"date", "location", "location_name"}, <<>>)}
    \cup {File(RequiredAdmCols, <<AdmRow(d, <<"6">>, <<3>>)>>) :
            d \in ValidDates}
    \cup {File(RequiredAdmCols, <<AdmRow(d, tok, <<3>>)>> \o tail) :
            d \in {Date20231008, <<2024, 9, 1>>}, tok \in LocTokens, tail \in AdmTails}

LocRow(location, population) == [location |-> location, population |-> population]

LocFiles ==
    { NoFile,
      File({"location", "abbreviation"}, <<>>),
      File({"location", "population"},
           <<LocRow(<<"U", "S">>, <<900>>), LocRow(<<"0", "6">>, <<40>>),
             LocRow(<<"7", "2">>, <<3>>)>>),
      File({"location", "population"},
           <<LocRow(<<"6", ".", "0">>, <<40>>), LocRow(<<"U", "S">>, NaN)>>),
      File({"location", "population"}, <<LocRow(<<"1", "2">>, <<20>>)>>) }

\* ---------------------------------------------------- svd_flu_data.py

\* pick_value_column: the first candidate that is a column of df, or "" (raise)
RECURSIVE pick_value_column(_, _)
pick_value_column(columns, candidates) ==
    IF candidates = <<>> THEN ""
    ELSE IF Head(candidates) \in columns THEN Head(candidates)
    ELSE pick_value_column(columns, Tail(candidates))

\* a/b in lowest terms, as <<numerator, denominator>>, b > 0
RECURSIVE Gcd(_, _)
Gcd(a, b) == IF b = 0 THEN a ELSE Gcd(b, a % b)

Fraction(a, b) ==
    LET g == Gcd(IF a < 0 THEN -a ELSE a, b)
    IN  <<a \div g, b \div g>>

RECURSIVE SumSeq(_)
SumSeq(vals) == IF vals = <<>> THEN 0 ELSE Head(vals) + SumSeq(Tail(vals))

\* variant: aggfunc="first"
AggFirst(vals) == Fraction(vals[1], 1)

\* aggfunc="mean" over the values of one cell, in row order
AggMean(vals) == Fraction(SumSeq(vals), Len(vals))

\* lines 68-71: season_week.between(0, 32), value notna, location zfill(2)
KeepRows(rows) ==
    LET inWindow == SelectSeq(rows, LAMBDA r : r.season_week >= 0 /\ r.season_week <= NumWeeks - 1)
        valued == SelectSeq(inWindow, LAMBDA r : r.value # NaN)
    IN  [i \in 1..Len(valued) |-> [valued[i] EXCEPT !.location = ZFill(@, 2)]]

\* line 74
ColKey(r) == r.season \o <<"_", "_">> \o r.location

\* drop_duplicates("col_key"): the first row of every col_key, in row order
DropDuplicates(rows) ==
    LET n == Len(rows)
        firstOf(key) == CHOOSE i \in 1..n :
                            ColKey(rows[i]) = key /\ \A j \in 1..(i - 1) : ColKey(rows[j]) # key
        firsts == {firstOf(key) : key \in {ColKey(rows[i]) : i \in 1..n}}
        nth(k) == CHOOSE i \in firsts : Cardinality({j \in firsts : j < i}) = k - 1
    IN  [k \in 1..Cardinality(firsts) |-> rows[nth(k)]]

\* the order of sort_values(["season", "location"])
KeyLess(a, b) ==
    IF a.season # b.season THEN StrLess(a.season, b.season)
    ELSE StrLess(a.location, b.location)

\* lines 81-87: one row per col_key, sorted, numbered 0..
NumberColumns(d, has_name) ==
    LET u == DropDuplicates(d)
        n == Len(u)
        rank(i) == 1 + Cardinality({j \in 1..n :
                        KeyLess(u[j], u[i]) \/ (~KeyLess(u[i], u[j]) /\ j < i)})
        at(k) == u[CHOOSE i \in 1..n : rank(i) = k]
    IN  [k \in 1..n |->
            [col_key |-> ColKey(at(k)), season |-> at(k).season,
             location |-> at(k).location,
             location_name |-> IF has_name THEN at(k).location_name ELSE "",
             col_id |-> k - 1]]

\* lines 93-98: pivot_table(index=season_week, columns=col_id, aggfunc="mean");
\* rows are the season_week values present, a cell without rows is NaN
Pivot(d, cm) ==
    LET ofCol == [k \in 1..Len(cm) |-> SelectSeq(d, LAMBDA r : ColKey(r) = cm[k].col_key)]
        cell(w, k) ==
            LET rs == SelectSeq(ofCol[k], LAMBDA r : r.season_week = w)
            IN  IF rs = <<>> THEN NaN ELSE AggMean([i \in 1..Len(rs) |-> rs[i].value[1]])
    IN  [w \in {d[i].season_week : i \in 1..Len(d)} |->
            [c \in {cm[k].col_id : k \in 1..Len(cm)} |-> cell(w, c + 1)]]

\* line 101: X.reindex(range(33))
Reindex(P, ids) ==
    [w \in 0..(NumWeeks - 1) |-> IF w \in DOMAIN P THEN P[w] ELSE [c \in ids |-> NaN]]

\* variant: notna().any(axis=0)
GoodColsAnyWeek(M, ids) == {c \in ids : \E w \in DOMAIN M : M[w][c] # NaN}

\* line 105: X.columns[X.notna().all(axis=0)]
GoodCols(M, ids) == {c \in ids : \A w \in DOMAIN M : M[w][c] # NaN}

\* the members of a set of integers in ascending order
RECURSIVE Ascending(_)
Ascending(S) ==
    IF S = {} THEN <<>>
    ELSE LET m == CHOOSE x \in S : \A y \in S : x <= y
         IN  <<m>> \o Ascending(S \ {m})

\* variant: col_id assigned again after the drop
RestrictRenumbered(cm, good) ==
    LET kept == SelectSeq(cm, LAMBDA r : r.col_id \in good)
    IN  [i \in 1..Len(kept) |-> [kept[i] EXCEPT !.col_id = i - 1]]

\* lines 109-110: colmap[colmap["col_id"].isin(good_cols)].sort_values("col_id")
RestrictColmap(cm, good) == SelectSeq(cm, LAMBDA r : r.col_id \in good)

RequiredCols(vc) == {"season_week", "season", "location", vc}

\* build_matrix(df, value_col): raised (missing columns), else X and colmap.
\* X is its column labels in order and its cells, data[season_week][col_id]
build_matrix(t, vc) ==
    IF ~(RequiredCols(vc) \subseteq t.columns)
    THEN [raised |-> TRUE, X |-> <<>>, colmap |-> <<>>]
    ELSE LET d == KeepRows(t.rows)
             cm == NumberColumns(d, "location_name" \in t.columns)
             ids == {cm[k].col_id : k \in 1..Len(cm)}
             M == Reindex(Pivot(d, cm), ids)
             good == GoodCols(M, ids)
         IN  [raised |-> FALSE,
              X |-> [columns |-> Ascending(good),
                     data |-> [w \in DOMAIN M |-> [c \in good |-> M[w][c]]]],
              colmap |-> RestrictColmap(cm, good)]

\* X.shape
Shape(M) == <<Cardinality(DOMAIN M.data), Len(M.columns)>>

Min(a, b) == IF a <= b THEN a ELSE b

\* line 132
NumComponents(M, nc) ==
    IF nc = None THEN Min(Shape(M)[1], Shape(M)[2])
    ELSE Min(nc[1], Min(Shape(M)[1], Shape(M)[2]))

\* lines 128-130: X - col_means is the zero matrix, exactly, when every column
\* holds one integer value in all its rows
CenteredIsZero(M) ==
    \A i \in 1..Len(M.columns) :
        LET c == M.columns[i]
        IN  \A w \in DOMAIN M.data : M.data[w][c] = M.data[0][c] /\ M.data[0][c][2] = 1

\* lines 134-136: what is known of singular value comp. The zero matrix has
\* every singular value exactly 0; a nonzero matrix has sigma[0] > 0, and the
\* model leaves its later singular values undetermined (>= 0).
SigmaValue(M, comp) ==
    IF CenteredIsZero(M) THEN "zero"
    ELSE IF comp = 0 THEN "positive" ELSE "nonnegative"

\* line 139: U = scores / sigma, element-wise and unguarded: 0/0 is nan
UValue(M, comp) ==
    CASE SigmaValue(M, comp) = "zero" -> "nan"
      [] SigmaValue(M, comp) = "positive" -> "finite"
      [] OTHER -> "undetermined"

LongRow(name, number1, week, value) ==
    [vector_name |-> name, vector_number1 |-> number1, season_week |-> week, value |-> value]

\* variant: the positional index col_idx in place of X.columns[col_idx]
VRowsPositional(M, k) ==
    [i \in 1..(Shape(M)[2] * k) |->
        LongRow("v", (i - 1) \div k, (i - 1) % k, "finite")]

\* lines 150-155
VRows(M, k) ==
    [i \in 1..(Shape(M)[2] * k) |->
        LongRow("v", M.columns[((i - 1) \div k) + 1], (i - 1) % k, "finite")]

\* lines 141-145
URows(M, k) ==
    LET nw == Shape(M)[1]
    IN  [i \in 1..(k * nw) |->
            LongRow("u", (i - 1) \div nw, (i - 1) % nw, UValue(M, (i - 1) \div nw))]

\* line 148
SRows(M, k) == [i \in 1..k |-> LongRow("sigma", i - 1, -1, SigmaValue(M, i - 1))]

\* pca_svd_to_long(X, n_components): the long factor table. Values are kept
\* as what the model knows of them, the three index fields exactly.
pca_svd_to_long(M, nc) ==
    LET k == NumComponents(M, nc)
    IN  URows(M, k) \o SRows(M, k) \o VRows(M, k)

\* lines 34-41 and 186-192: the arguments of the two run_one calls of main
Candidates(r) == IF r = 1 THEN <<"hosps_pop_norm">> ELSE <<"zflu">>

OutPath(r) == IF r = 1 THEN "SVD_flu_pop.csv" ELSE "SVD_flu_zscore.csv"

OutColmapPath(r) == IF r = 1 THEN "SVD_flu_pop_columns.csv" ELSE "SVD_flu_zscore_columns.csv"

OutPaths == {OutPath(1), OutPath(2), OutColmapPath(1), OutColmapPath(2)}

SvdFailed == pc \in {"FileNotFoundError", "ValueError"}

\* lines 162-165
RunRead ==
    /\ pc = "start"
    /\ IF ~inFiles[run].exists THEN pc' = "FileNotFoundError" /\ df' = df
       ELSE pc' = "loaded" /\ df' = inFiles[run]
    /\ UNCHANGED <<run, inFiles, written, value_col, X, colmap, n_components,
                   svd_long, first, shuffles>>
    /\ UNCHANGED fvars

\* line 167
RunPick ==
    /\ pc = "loaded"
    /\ value_col' = pick_value_column(df.columns, Candidates(run))
    /\ pc' = IF value_col' = "" THEN "ValueError" ELSE "picked"
    /\ UNCHANGED <<run, inFiles, written, df, X, colmap, n_components, svd_long,
                   first, shuffles>>
    /\ UNCHANGED fvars

\* line 168
RunBuild ==
    /\ pc = "picked"
    /\ LET b == build_matrix(df, value_col)
       IN  IF b.raised THEN pc' = "ValueError" /\ X' = X /\ colmap' = colmap
           ELSE pc' = "built" /\ X' = b.X /\ colmap' = b.colmap
    /\ UNCHANGED <<run, inFiles, written, df, value_col, n_components, svd_long,
                   first, shuffles>>
    /\ UNCHANGED fvars

\* lines 170-171
RunCheck ==
    /\ pc = "built"
    /\ pc' = IF Shape(X)[2] < 2 THEN "ValueError" ELSE "checked"
    /\ UNCHANGED <<run, inFiles, written, df, value_col, X, colmap, n_components,
                   svd_long, first, shuffles>>
    /\ UNCHANGED fvars

\* line 173
RunPca ==
    /\ pc = "checked"
    /\ svd_long' = pca_svd_to_long(X, n_components)
    /\ pc' = "decomposed"
    /\ UNCHANGED <<run, inFiles, written, df, value_col, X, colmap, n_components,
                   first, shuffles>>
    /\ UNCHANGED fvars

\* line 175
RunWriteOut ==
    /\ pc = "decomposed"
    /\ run > 0
    /\ written' = [written EXCEPT ![OutPath(run)] =
                      File({"vector_name", "vector_number1", "season_week", "value"}, svd_long)]
    /\ pc' = "wrote_out"
    /\ UNCHANGED <<run, inFiles, df, value_col, X, colmap, n_components, svd_long,
                   first, shuffles>>
    /\ UNCHANGED fvars

\* lines 176-181, and main's next call (line 192) or return
RunWriteColmap ==
    /\ pc = "wrote_out"
    /\ written' = [written EXCEPT ![OutColmapPath(run)] =
                      File({"col_key", "season", "location", "location_name", "col_id"}
                             \cap (df.columns \cup {"col_key", "col_id"}), colmap)]
    /\ IF run = 1 THEN pc' = "start" /\ run' = 2 ELSE pc' = "done" /\ run' = run
    /\ UNCHANGED <<inFiles, df, value_col, X, colmap, n_components, svd_long,
                   first, shuffles>>
    /\ UNCHANGED fvars

\* ---- matrix builder and decomposer inputs

DfRow(week, season, location, name, value) ==
    [season_week |-> week, season |-> season, location |-> location,
     location_name |-> name, value |-> value]

\* the value of a series at a week
CellValue(shape, w) ==
    CASE shape = "flat" -> 1
      [] shape = "ramp" -> w + 1
      [] shape = "double" -> 2 * (w + 1)
      [] shape = "peak" -> IF w < 16 THEN w ELSE 32 - w

\* one complete (season, location) series: a row for every week 0..32
Series(season, location, name, shape) ==
    [i \in 1..NumWeeks |-> DfRow(i - 1, season, location, name, <<CellValue(shape, i - 1)>>)]

DeleteAt(s, i) == SubSeq(s, 1, i - 1) \o SubSeq(s, i + 1, Len(s))

S21 == SeasonLabel(2021)
S22 == SeasonLabel(2022)
S23 == SeasonLabel(2023)

L06 == <<"0", "6">>
L12 == <<"1", "2">>

DfCols(vc) == {"date", "season_week", "season", "location", "location_name", vc}

\* ---- svd script inputs (run r reads its own file)

TwoSeries(a, b) == Series(S22, L06, "California", a) \o Series(S23, L12, "Florida", b)

SvdInputs(r) ==
    LET vc == Candidates(r)[1]
    IN  { NoFile,
          File(DfCols("value"), TwoSeries("ramp", "peak")),
          File(DfCols(vc) \ {"season"}, TwoSeries("ramp", "peak")),
          File(DfCols(vc), DeleteAt(TwoSeries("ramp", "peak"), NumWeeks)),
          File(DfCols(vc), TwoSeries("ramp", "peak")),
          File(DfCols(vc) \ {"location_name"}, TwoSeries("flat", "double")) }

InitSvd ==
    /\ pc = "start" /\ run = 1
    /\ inFiles \in {<<a, b>> : a \in SvdInputs(1), b \in SvdInputs(2)}
    /\ written = [p \in OutPaths |-> NoFile]
    /\ df = NoFile /\ value_col = ""
    /\ X = <<>> /\ colmap = <<>> /\ n_components = None /\ svd_long = <<>>
    /\ first = <<>> /\ shuffles = 0
    /\ fpc = "idle" /\ admFile = NoFile /\ locFile = NoFile /\ adm = <<>> /\ outFile = NoFile

NextSvd ==
    RunRead \/ RunPick \/ RunBuild \/ RunCheck \/ RunPca \/ RunWriteOut \/ RunWriteColmap

SpecSvd == InitSvd /\ [][NextSvd]_vars

\* ---- matrix builder inputs: three complete series, one row deleted, extra
\* rows appended

BaseRows ==
    Series(S23, L06, "California", "ramp") \o Series(S22, L06, "California", "double")
    \o Series(S22, L12, "Florida", "flat")

\* hole = 0: nothing deleted; otherwise row number `hole` of the base rows is
\* deleted, leaving its series one week short: any week of the second series,
\* the first or the last week of the others
Holes ==
    {0} \cup {h \in 1..Len(BaseRows) :
                \/ BaseRows[h].season = S22 /\ BaseRows[h].location = L06
                \/ BaseRows[h].season_week \in {0, NumWeeks - 1}}

WithHole(hole) == IF hole = 0 THEN BaseRows ELSE DeleteAt(BaseRows, hole)

ExtraRows ==
    { <<>>,
      \* the same cells again, the location unpadded, another name and value
      <<DfRow(5, S22, <<"6">>, "CA", <<7>>), DfRow(0, S22, <<"6">>, "CA", <<5>>),
        DfRow(5, S22, <<"6">>, "Calif.", <<-3>>)>>,
      \* rows outside the window, and a row without a value
      <<DfRow(NumWeeks, S22, L12, "Florida", <<9>>), DfRow(-1, S23, L06, "California", <<9>>),
        DfRow(7, S22, L12, "Florida", NaN), DfRow(32, S23, L06, "California", NaN)>>,
      \* two short series, sorted before and between the complete ones
      <<DfRow(0, S21, L06, "California", <<2>>), DfRow(1, S22, <<"U", "S">>, "US", <<8>>),
        DfRow(2, S22, <<"U", "S">>, "US", <<8>>)>> }

BuildInputs ==
    {File(DfCols("zflu"), WithHole(h) \o e) : h \in Holes, e \in ExtraRows}
    \cup {File(DfCols("zflu") \ {"location_name"}, e \o BaseRows) : e \in ExtraRows}

Reverse(s) == [i \in 1..Len(s) |-> s[Len(s) + 1 - i]]

\* rows of odd position first, then rows of even position
Deal(s) ==
    [i \in 1..Len(s) |->
        IF i <= (Len(s) + 1) \div 2 THEN s[2 * i - 1] ELSE s[2 * (i - (Len(s) + 1) \div 2)]]

InitBuild ==
    /\ pc = "picked" /\ run = 0
    /\ df \in BuildInputs
    /\ value_col = "zflu"
    /\ inFiles = <<>> /\ written = <<>>
    /\ X = <<>> /\ colmap = <<>> /\ n_components = None /\ svd_long = <<>>
    /\ first = <<>> /\ shuffles = 0
    /\ fpc = "idle" /\ admFile = NoFile /\ locFile = NoFile /\ adm = <<>> /\ outFile = NoFile

\* the caller shuffles the rows of the table and builds the matrix again
Shuffle ==
    /\ pc = "built"
    /\ shuffles < MaxShuffles
    /\ \/ df' = [df EXCEPT !.rows = Reverse(@)]
       \/ df' = [df EXCEPT !.rows = Deal(@)]
    /\ first' = IF shuffles = 0 THEN [X |-> X, colmap |-> colmap] ELSE first
    /\ shuffles' = shuffles + 1
    /\ pc' = "picked"
    /\ UNCHANGED <<run, inFiles, written, value_col, X, colmap, n_components, svd_long>>
    /\ UNCHANGED fvars

NextBuild == RunBuild \/ Shuffle

SpecBuild == InitBuild /\ [][NextBuild]_vars

\* ---- decomposer inputs: matrices of n columns, given directly

\* the column labels: n ids in ascending order, skipping id `gap`
Labels(n, gap) == [i \in 1..n |-> IF i - 1 < gap THEN i - 1 ELSE i]

ShapeOf(pattern, c) ==
    CASE pattern = "flat" -> "flat"
      [] pattern = "correlated" -> (IF c % 2 = 0 THEN "ramp" ELSE "double")
      [] pattern = "mixed" -> (IF c % 3 = 0 THEN "ramp" ELSE IF c % 3 = 1 THEN "peak" ELSE "flat")

Matrix(n, gap, pattern) ==
    [columns |-> Labels(n, gap),
     data |-> [w \in 0..(NumWeeks - 1) |->
                 [c \in Range(Labels(n, gap)) |-> <<CellValue(ShapeOf(pattern, c), w), 1>>]]]

PcaSizes == {2, 3} \cup ((NumWeeks - 1)..(NumWeeks + MaxExtraCols))

PcaInputs ==
    {Matrix(n, gap, pattern) : n \in PcaSizes, gap \in {0, 1, NumWeeks + MaxExtraCols},
                               pattern \in {"flat", "correlated", "mixed"}}

InitPca ==
    /\ pc = "checked" /\ run = 0
    /\ X \in PcaInputs
    /\ n_components \in {None, <<1>>, <<2>>, <<NumWeeks>>, <<NumWeeks + MaxExtraCols>>}
    /\ df = NoFile /\ value_col = ""
    /\ inFiles = <<>> /\ written = <<>>
    /\ colmap = <<>> /\ svd_long = <<>>
    /\ first = <<>> /\ shuffles = 0
    /\ fpc = "idle" /\ admFile = NoFile /\ locFile = NoFile /\ adm = <<>> /\ outFile = NoFile

NextPca == RunPca

SpecPca == InitPca /\ [][NextPca]_vars

SvdIdle ==
    /\ pc = "idle" /\ run = 0 /\ inFiles = <<>> /\ written = <<>> /\ df = NoFile
    /\ value_col = "" /\ X = <<>> /\ colmap = <<>> /\ n_components = None
    /\ svd_long = <<>> /\ first = <<>> /\ shuffles = 0

InitFormat ==
    /\ fpc = "start"
    /\ admFile \in AdmFiles
    /\ locFile \in LocFiles
    /\ adm = <<>>
    /\ outFile = NoFile
    /\ SvdIdle

NextFormat == FmtLoad \/ FmtClean \/ FmtCalendar \/ FmtWindow \/ FmtMerge \/ FmtWrite

SpecFormat == InitFormat /\ [][NextFormat]_vars

\* ---- the whole program: either script, or one of its functions on its own

Init == InitFormat \/ InitSvd \/ InitBuild \/ InitPca

Next == NextFormat \/ NextSvd \/ Shuffle

Spec == Init /\ [][Next]_vars

\* ------------------------------------------------------------- properties

SeasonLabel2023 == <<"2", "0", "2", "3", "/", "2", "0", "2", "4">>

FromLocation6On20231008 ==
    /\ admFile.exists
    /\ admFile.rows # <<>>
    /\ admFile.rows[1] = AdmRow(Date20231008, <<"6">>, <<3>>)

\* C6 (as amended): the formatter's output row for the admissions observation
\* with location "6" dated 2023-10-08 has location "06", season "2023/2024",
\* epi-week 41 and season_week 1: epi-week 40 of 2023 starts on Sunday
\* 2023-10-01, and season_week is the number of whole weeks since that day.
C6_SeasonWeekOf20231008 ==
    (fpc = "done" /\ FromLocation6On20231008) =>
        /\ \E i \in 1..Len(outFile.rows) :
              outFile.rows[i].date = Date20231008 /\ outFile.rows[i].location = L06
        /\ \A i \in 1..Len(outFile.rows) :
              (outFile.rows[i].date = Date20231008 /\ outFile.rows[i].location = L06) =>
                  /\ outFile.rows[i].season = SeasonLabel2023
                  /\ outFile.rows[i].epiyear = 2023
                  /\ outFile.rows[i].epiweek = 41
                  /\ outFile.rows[i].season_week = 1
                  /\ WeekStartDate(2023, FirstSeasonEpiweek) = ToOrdinal(<<2023, 10, 1>>)
                  /\ outFile.rows[i].season_week
                       = (ToOrdinal(Date20231008) - ToOrdinal(<<2023, 10, 1>>)) \div 7

C6_Witness ==
    /\ fpc = "done"
    /\ FromLocation6On20231008
    /\ \E i \in 1..Len(outFile.rows) :
          outFile.rows[i].date = Date20231008 /\ outFile.rows[i].season_week = 1

\* C6 (as claimed): that output row has season "2023/2024" and season_week 0.
C6_Original ==
    (fpc = "done" /\ FromLocation6On20231008) =>
        \A i \in 1..Len(outFile.rows) :
            (outFile.rows[i].date = Date20231008 /\ outFile.rows[i].location = L06) =>
                outFile.rows[i].season = SeasonLabel2023 /\ outFile.rows[i].season_week = 0

\* the normalized location codes of the population reference table
ReferenceCodes == {normalize_location(locFile.rows[i].location) : i \in 1..Len(locFile.rows)}

ReferenceLoaded == locFile.exists /\ {"location", "population"} \subseteq locFile.columns

\* C8: once the rows are normalized and filtered to the season window, a
\* retained row whose location code is not in the (normalized) reference table
\* makes the merge step fail with the mismatch error; a failed run never has
\* an output file; every row of a written output carries a population.
C8_JoinMismatchIsFatal ==
    /\ [][(fpc = "windowed" /\ ReferenceLoaded
             /\ \E i \in 1..Len(adm) : adm[i].location \notin ReferenceCodes)
          => (fpc' = "JoinMismatch" /\ outFile' = NoFile)]_vars
    /\ [](FmtFailed => outFile = NoFile)
    /\ [](fpc = "done" =>
            /\ outFile.rows # <<>> => \E i \in 1..Len(locFile.rows) :
                  normalize_location(locFile.rows[i].location) = outFile.rows[1].location
            /\ \A i \in 1..Len(outFile.rows) : outFile.rows[i].population # NaN)

C8_Witness ==
    /\ fpc = "JoinMismatch"
    /\ outFile = NoFile
    /\ \E i \in 1..Len(adm) : adm[i].location = <<"7", "2">> /\ adm[i].population = NaN

\* C10: a date is never earlier than the first day of epi-week 40 of its own
\* season start year, so season_week is never negative when the window filter
\* runs; the filter removes exactly the rows with season_week > 32, and every
\* row of the formatted output has season_week in 0..32.
C10_SeasonWeekNeverNegative ==
    /\ [](fpc = "dated" => \A i \in 1..Len(adm) : adm[i].season_week >= 0)
    /\ [][fpc = "dated" =>
            adm' = SelectSeq(adm, LAMBDA r : ~(r.season_week > NumWeeks - 1))]_vars
    /\ [](fpc = "done" =>
            \A i \in 1..Len(outFile.rows) : outFile.rows[i].season_week \in 0..(NumWeeks - 1))

C10_Witness ==
    /\ fpc = "dated"
    /\ \E i \in 1..Len(adm) : adm[i].season_week > NumWeeks - 1
    /\ \E i \in 1..Len(adm) : adm[i].season_week = 0

\* ---- matrix builder

\* a row of the input table that carries a value inside the season window
Counts(r) == r.season_week \in 0..(NumWeeks - 1) /\ r.value # NaN

\* the (season, location) pair of a row, the location code at fixed width
PairOf(r) == <<r.season, ZFill(r.location, 2)>>

CountingRows == {i \in 1..Len(df.rows) : Counts(df.rows[i])}

Pairs == {PairOf(df.rows[i]) : i \in CountingRows}

CellRows(p, w) ==
    {i \in CountingRows : df.rows[i].season_week = w /\ PairOf(df.rows[i]) = p}

Complete(p) == \A w \in 0..(NumWeeks - 1) : CellRows(p, w) # {}

PairOfColumn(c) ==
    LET k == CHOOSE j \in 1..Len(colmap) : colmap[j].col_id = c
    IN  <<colmap[k].season, colmap[k].location>>

InMatrix(p) ==
    \E k \in 1..Len(colmap) :
        /\ <<colmap[k].season, colmap[k].location>> = p
        /\ colmap[k].col_id \in Range(X.columns)

\* C1: the matrix returned by build_matrix has exactly the rows season_week
\* 0..32; a (season, location) pair is a column of it if and only if the table
\* has a non-null value for the pair in every one of the 33 weeks; no cell of
\* a retained column is missing.
C1_CompleteColumnsOnly ==
    pc = "built" =>
        /\ DOMAIN X.data = 0..32 /\ Cardinality(DOMAIN X.data) = 33
        /\ \A p \in {PairOf(df.rows[i]) : i \in 1..Len(df.rows)} : InMatrix(p) <=> Complete(p)
        /\ \A w \in DOMAIN X.data :
              /\ DOMAIN X.data[w] = Range(X.columns)
              /\ \A c \in Range(X.columns) : X.data[w][c] # NaN

C1_Witness ==
    /\ pc = "built"
    /\ \E p \in Pairs :
          /\ Cardinality({w \in 0..(NumWeeks - 1) : CellRows(p, w) # {}}) = NumWeeks - 1
          /\ ~InMatrix(p)
    /\ \E p \in Pairs : Complete(p) /\ InMatrix(p)

\* C2: the ColumnMap is the same for every order of the rows of the table,
\* also when rows of one (season, location) pair carry different
\* location_name values.
C2_ColumnMapIndependentOfRowOrder ==
    (pc = "built" /\ shuffles > 0) => colmap = first.colmap

PairLess(p, q) == IF p[1] # q[1] THEN StrLess(p[1], q[1]) ELSE StrLess(p[2], q[2])

\* C7: the ColumnMap has one row per retained matrix column, in ascending
\* col_id order with the matrix's column labels as its ids, and the id of a
\* retained column is its position among all distinct (season, location) keys
\* of the table sorted ascending, as assigned before incomplete columns were
\* dropped (so ids may have gaps).
C7_IdsKeptAfterDrop ==
    pc = "built" =>
        /\ [k \in 1..Len(colmap) |-> colmap[k].col_id] = X.columns
        /\ \A k \in 1..(Len(colmap) - 1) : colmap[k].col_id < colmap[k + 1].col_id
        /\ \A k \in 1..Len(colmap) :
              LET p == <<colmap[k].season, colmap[k].location>>
              IN  /\ p \in Pairs
                  /\ colmap[k].col_id = Cardinality({q \in Pairs : PairLess(q, p)})

C7_Witness ==
    /\ pc = "built"
    /\ Len(colmap) >= 2
    /\ colmap[1].col_id # 0
    /\ \E k \in 1..(Len(colmap) - 1) : colmap[k + 1].col_id > colmap[k].col_id + 1

RECURSIVE SumValues(_)
SumValues(S) ==
    IF S = {} THEN 0
    ELSE LET i == CHOOSE j \in S : TRUE
         IN  df.rows[i].value[1] + SumValues(S \ {i})

C3_NoOutputOnFailure ==
    SvdFailed => \A p \in OutPaths : written[p] = NoFile

\* ---- decomposer

ExpectedK ==
    IF n_components = None THEN Min(NumWeeks, Len(X.columns))
    ELSE Min(n_components[1], Min(NumWeeks, Len(X.columns)))

ExpectedIndex ==
    {<<"u", c, w>> : c \in 0..(ExpectedK - 1), w \in 0..(NumWeeks - 1)}
    \cup {<<"sigma", c, -1>> : c \in 0..(ExpectedK - 1)}
    \cup {<<"v", id, c>> : id \in Range(X.columns), c \in 0..(ExpectedK - 1)}

\* C4: with k = min(33, n), or min(n_components, 33, n) when capped, the factor
\* table has exactly one 'u' row per (component, week), one 'sigma' row per
\* component with season_week -1, one 'v' row per (column id, component) with
\* the column's id in vector_number1 and the component in season_week, and no
\* other row: 33k + k + nk rows.
C4_LongTableShape ==
    pc = "decomposed" =>
        /\ {<<svd_long[i].vector_name, svd_long[i].vector_number1, svd_long[i].season_week>> :
               i \in 1..Len(svd_long)} = ExpectedIndex
        /\ Len(svd_long) = Cardinality(ExpectedIndex)
        /\ Len(svd_long) = 33 * ExpectedK + ExpectedK + Len(X.columns) * ExpectedK

C4_Witness ==
    /\ pc = "decomposed"
    /\ n_components = None
    /\ Len(X.columns) > NumWeeks
    /\ X.columns[1] # 0
    /\ Len(svd_long) = 33 * 33 + 33 + Len(X.columns) * 33

\* C5: when one of the k singular values is exactly zero the decomposition
\* fails: no factor table is returned, and no 'u' row is the result of a
\* division by a zero singular value.
C5_ZeroSingularValueIsFatal ==
    /\ (pc = "checked" \/ pc = "decomposed") =>
          ((\E comp \in 0..(ExpectedK - 1) : SigmaValue(X, comp) = "zero")
              => (pc # "decomposed" /\ svd_long = <<>>))
    /\ \A i \in 1..Len(svd_long) :
          svd_long[i].vector_name = "u" => svd_long[i].value # "nan"

====
